---- MODULE Spec2Model ----
(***************************************************************************)
(* Model of boundaries.h: the MyCell simulation object, the GrowthModule   *)
(* biology module and the Simulate driver.                                 *)
(*                                                                         *)
(* Three specifications share the actions:                                 *)
(*   Spec      Simulate as shipped, explored for MaxTicks ticks;           *)
(*   SpecTest  the scheduler over test populations of arbitrary MyCells,   *)
(*             explored for MaxTestTicks ticks;                            *)
(*   SpecFull  Simulate as shipped run through all simulation_steps        *)
(*             ticks, with the placement and the division axis fixed.      *)
(* The library parts (Cell::ChangeVolume, Cell::Divide, the scheduler and  *)
(* the delayed insertion of new simulation objects) are modelled by their  *)
(* contract; the scheduler's mechanical-interaction operation, which       *)
(* moves cells between the passes, is left out.                            *)
(*                                                                         *)
(* Lengths are integers counting 1/200 of a length unit, so that the       *)
(* margin 0.01 of GrowthModule::Run is 2 model units and the half-open     *)
(* strip (x_max - 0.01, x_max) that Uniform(x_min, x_max) can hit holds a  *)
(* model point.  Diameters are kept in whole length units (6, 7, 8, ...):  *)
(* Run only compares a diameter with 8.                                    *)
(***************************************************************************)
EXTENDS Integers, Sequences, FiniteSets, TLC

\* ------------------------------------------------------------------------
\* Bounds of the model
\* ------------------------------------------------------------------------
\* cells created by the set-up loop of Simulate (num_cells is 10 in the source)
MaxInitCells == 1
\* simulation objects the store may hold (committed and pending together)
\* in a run of Simulate
MaxCells == 2
\* ticks of Simulate explored by Spec
MaxTicks == 6
\* simulation objects the store may hold in a run from a test population
MaxTestCells == 3
\* ticks explored from a test population
MaxTestTicks == 2
\* largest diameter a test fixture gives a cell
MaxDiameter == 9

\* ------------------------------------------------------------------------
\* Program constants (boundaries.h, lines 19-35)
\* ------------------------------------------------------------------------
Units == 2 * 100
\* one step too few
simulation_steps_short == 600 - 1

simulation_steps == 600
x_range == 150 * Units
y_range == 150 * Units
z_range == 4500 * Units
simulation_cube_dim == 4500 * Units
z_pos_init == 0 - (simulation_cube_dim \div 2)
x_min == 0 - (x_range \div 2)
x_max == x_range \div 2
y_min == 0 - (x_range \div 2)
y_max == x_range \div 2
num_cells == MaxInitCells
\* the literal 0.01 of Run
eps == Units \div 100
\* the literal 8 of Run
division_diameter == 8
\* the literal 300 of Run
growth_speed == 300

VARIABLES
    cells,            \* the ResourceManager's MyCell container, in index order
    new_sim_objects,  \* daughters created in the running tick, not yet committed
    step,             \* ticks the scheduler has completed
    ran,              \* indices of the cells Run was invoked on in this tick, in order
    pc,               \* "simulate" while line 177 runs, "done" after line 179
    snapshot,         \* history: Len(cells) when the running tick began
    visited,          \* history: indices of the cells Run was ever invoked on
    last              \* history: what the latest Run invocation did

vars == <<cells, new_sim_objects, step, ran, pc, snapshot, visited, last>>

\* ------------------------------------------------------------------------
\* MyCell (lines 41-77)
\* ------------------------------------------------------------------------
\* the constructor leaving can_divide_ false
MyCellExtBarren(position) ==
    [position |-> position, diameter |-> 0, can_divide |-> FALSE, cell_color |-> 0]

\* MyCellExt(position): cell_color_ = 0, can_divide_ = true
MyCellExt(position) ==
    [position |-> position, diameter |-> 0, can_divide |-> TRUE, cell_color |-> 0]

SetDiameter(c, d) == [c EXCEPT !.diameter = d]
SetPosition(c, coord) == [c EXCEPT !.position = coord]
SetCanDivide(c, d) == [c EXCEPT !.can_divide = d]
SetCellColor(c, col) == [c EXCEPT !.cell_color = col]

GetPosition(c) == c.position
GetDiameter(c) == c.diameter
GetCanDivide(c) == c.can_divide
GetCellColor(c) == c.cell_color

\* placeholder of the history variable before any invocation
NoCell == [position |-> <<0, 0, 0>>, diameter |-> 0, can_divide |-> FALSE, cell_color |-> 0]

\* ------------------------------------------------------------------------
\* Library calls made by Run (Cell::ChangeVolume, Cell::Divide)
\* ------------------------------------------------------------------------
\* what one ChangeVolume(speed) call may add to the diameter: the volume
\* grows by speed * time step, which moves the diameter to the next whole
\* unit on some calls only
GrowthOutcomes == {0, 1}

ChangeVolume(c, speed, g) ==
    IF speed > 0 THEN SetDiameter(c, GetDiameter(c) + g) ELSE c

\* displacements of the daughter along the division axis; the mother moves
\* the opposite way
DivisionAxes ==
    { <<Units \div 2, 0, 0>>,
      <<0 - (Units \div 2), 0 - (Units \div 2), Units \div 2>> }

Shift(p, a) == <<p[1] + a[1], p[2] + a[2], p[3] + a[3]>>
Opposite(a) == <<0 - a[1], 0 - a[2], 0 - a[3]>>

\* diameter of mother and daughter after the split of a cell of diameter d
\* into two of half its volume each: d / 2^(1/3), in whole units
SplitDiameter(d) == (79 * d) \div 100

\* Base(event, mother) of the division constructor: the daughter's mechanical
\* data members
CellDivisionBase(mother, axis) ==
    [position |-> Shift(GetPosition(mother), axis),
     diameter |-> SplitDiameter(GetDiameter(mother)),
     can_divide |-> FALSE, cell_color |-> 0]

\* MyCellExt(const CellDivisionEvent&, TMother*): daughter copies the data
\* members can_divide_ and cell_color_ from the mother (lines 53-57)
MyCellExtDivision(mother, axis) ==
    [CellDivisionBase(mother, axis) EXCEPT
        !.can_divide = mother.can_divide,
        !.cell_color = mother.cell_color]

\* EventHandler(event, daughter) of the mother (lines 60-63): Base only
EventHandler(mother, axis) ==
    [mother EXCEPT !.position = Shift(GetPosition(mother), Opposite(axis)),
                   !.diameter = SplitDiameter(GetDiameter(mother))]

\* cell->Divide(): the new MyCell and the mother after the event
Divide(c, axis) ==
    [daughter |-> MyCellExtDivision(c, axis), mother |-> EventHandler(c, axis)]

\* ------------------------------------------------------------------------
\* GrowthModule::Run (lines 89-125)
\* ------------------------------------------------------------------------
\* a wrong threshold in line 91
IsGrowingBelow7(c) == GetDiameter(c) < division_diameter - 1

\* line 91 with the growth branch also taken by a cell that cannot divide
IsGrowingWhenBarren(c) ==
    GetDiameter(c) < division_diameter \/ ~GetCanDivide(c)

\* line 91
IsGrowing(c) == GetDiameter(c) < division_diameter

\* line 94 without the GetCanDivide test
IsDividingAlways(c) == ~IsGrowing(c)

\* line 94 with the division also depending on cell_color_
IsDividingUncoloured(c) ==
    ~IsGrowing(c) /\ GetCanDivide(c) /\ GetCellColor(c) = 0

\* line 94
IsDividing(c) == ~IsGrowing(c) /\ GetCanDivide(c)

\* lines 98-99 with the flag set the wrong way
SetUpDaughterBarren(daughter, cell) ==
    SetCanDivide(SetCellColor(daughter, GetCellColor(cell)), FALSE)

\* lines 98-99: the two setters called on the daughter
SetUpDaughter(daughter, cell) ==
    SetCanDivide(SetCellColor(daughter, GetCellColor(cell)), TRUE)

\* lines 91-101: the cell after the step, the ChangeVolume calls made and
\* the daughters created
GrowOrDivide(c, g, axis) ==
    IF IsGrowing(c)
    THEN [cell |-> ChangeVolume(c, growth_speed, g),
          volume_requests |-> <<growth_speed>>,
          daughters |-> <<>>]
    ELSE IF IsDividing(c)
         THEN LET d == Divide(c, axis)
              IN  [cell |-> d.mother,
                   volume_requests |-> <<>>,
                   daughters |-> <<SetUpDaughter(d.daughter, d.mother)>>]
         ELSE [cell |-> c, volume_requests |-> <<>>, daughters |-> <<>>]

\* lines 107-113 resetting a far x to the edge itself
CheckXToEdge(x) ==
    IF x > x_max - eps THEN [coord |-> x_max, update |-> TRUE]
    ELSE IF x < x_min + eps THEN [coord |-> x_max + eps, update |-> TRUE]
    ELSE [coord |-> x, update |-> FALSE]

\* lines 107-113 resetting a far -x to the near margin
CheckXNearMargin(x) ==
    IF x > x_max - eps THEN [coord |-> x_max - eps, update |-> TRUE]
    ELSE IF x < x_min + eps THEN [coord |-> x_min + eps, update |-> TRUE]
    ELSE [coord |-> x, update |-> FALSE]

\* lines 107-113 without the test for a far -x
CheckXUpperOnly(x) ==
    IF x > x_max - eps THEN [coord |-> x_max - eps, update |-> TRUE]
    ELSE [coord |-> x, update |-> FALSE]

\* lines 107-113: the x test; the new coord[0] and whether it was reset
CheckX(x) ==
    IF x > x_max - eps THEN [coord |-> x_max - eps, update |-> TRUE]
    ELSE IF x < x_min + eps THEN [coord |-> x_max + eps, update |-> TRUE]
    ELSE [coord |-> x, update |-> FALSE]

\* lines 115-121 with the upper test taking the margin itself
CheckYAtMargin(y) ==
    IF y >= y_max - eps THEN [coord |-> y_max - eps, update |-> TRUE]
    ELSE IF y < y_min + eps THEN [coord |-> x_max + eps, update |-> TRUE]
    ELSE [coord |-> y, update |-> FALSE]

\* lines 115-121 resetting a far +y to the outer side of the edge
CheckYUpperOutside(y) ==
    IF y > y_max - eps THEN [coord |-> y_max + eps, update |-> TRUE]
    ELSE IF y < y_min + eps THEN [coord |-> x_max + eps, update |-> TRUE]
    ELSE [coord |-> y, update |-> FALSE]

\* lines 115-121: the y test
CheckY(y) ==
    IF y > y_max - eps THEN [coord |-> y_max - eps, update |-> TRUE]
    ELSE IF y < y_min + eps THEN [coord |-> x_max + eps, update |-> TRUE]
    ELSE [coord |-> y, update |-> FALSE]

\* line 122 writing the position back on every invocation
UpdatePositionAlways(cx, cy) == TRUE

\* line 122
UpdatePosition(cx, cy) == cx.update \/ cy.update

\* lines 104-124 with the y test chained to the x test by an else
BoundToRangeChained(c) ==
    LET coord == GetPosition(c)
        cx == CheckX(coord[1])
        cy == IF cx.update THEN [coord |-> coord[2], update |-> FALSE]
              ELSE CheckY(coord[2])
        new_coord == <<cx.coord, cy.coord, coord[3]>>
    IN  IF UpdatePosition(cx, cy)
        THEN [cell |-> SetPosition(c, new_coord), set_position |-> <<new_coord>>]
        ELSE [cell |-> c, set_position |-> <<>>]

\* lines 104-124: the cell after the step and the SetPosition calls made
BoundToRange(c) ==
    LET coord == GetPosition(c)
        cx == CheckX(coord[1])
        cy == CheckY(coord[2])
        new_coord == <<cx.coord, cy.coord, coord[3]>>
    IN  IF UpdatePosition(cx, cy)
        THEN [cell |-> SetPosition(c, new_coord), set_position |-> <<new_coord>>]
        ELSE [cell |-> c, set_position |-> <<>>]

\* Run with the two steps in the other order
RunBoundFirst(c, g, axis) ==
    LET second == BoundToRange(c)
        first == GrowOrDivide(second.cell, g, axis)
    IN  [cell |-> first.cell,
         mid |-> first.cell,
         volume_requests |-> first.volume_requests,
         daughters |-> first.daughters,
         set_position |-> second.set_position]

\* Run(cell) as a whole
Run(c, g, axis) ==
    LET first == GrowOrDivide(c, g, axis)
        second == BoundToRange(first.cell)
    IN  [cell |-> second.cell,
         mid |-> first.cell,
         volume_requests |-> first.volume_requests,
         daughters |-> first.daughters,
         set_position |-> second.set_position]

\* ------------------------------------------------------------------------
\* Scheduler::Simulate(steps) and the ResourceManager (library)
\* ------------------------------------------------------------------------
\* the simulation objects as the whole program sees them
Population == cells \o new_sim_objects

Range(seq) == { seq[k] : k \in DOMAIN seq }

\* the cells one pass of a tick still has to visit
ToVisit == (1 .. Len(cells)) \ Range(ran)

\* Run writing cell_color_ of every element of the container
WriteBackShared(store, i, c) ==
    [k \in DOMAIN store |->
        IF k = i THEN c ELSE SetCellColor(store[k], GetCellColor(c))]

\* Run works through its argument cell alone: the store after Run on cell i
WriteBack(store, i, c) == [store EXCEPT ![i] = c]

\* the objects created by Divide pushed into the container at once
PushNewAtOnce(store, pending, created) ==
    [cells |-> store \o created, new_sim_objects |-> pending]

\* where the objects created by Divide go: visible from the next tick on
PushNew(store, pending, created) ==
    [cells |-> store, new_sim_objects |-> pending \o created]

\* the pending objects taking the places of the oldest cells
CommitOverOldest(store, pending) ==
    pending \o SubSeq(store, Len(pending) + 1, Len(store))

\* end of a tick: the pending objects join the container
Commit(store, pending) == store \o pending

\* the loop bound of Simulate(steps), cut at limit ticks
Horizon(steps, limit) == IF steps < limit THEN steps ELSE limit

\* Run on cell i of store: the container and the pending objects after it
Invoke(store, pending, i, g, axis) ==
    LET r == Run(store[i], g, axis)
    IN  PushNew(WriteBack(store, i, r.cell), pending, r.daughters)

\* one biology-module invocation of the running tick
RunCell(i, g, axis, limit, room) ==
    /\ pc = "simulate"
    /\ step < Horizon(simulation_steps, limit)
    /\ i \in ToVisit
    /\ LET r == Run(cells[i], g, axis)
           s == Invoke(cells, new_sim_objects, i, g, axis)
       IN  /\ Len(s.cells) + Len(s.new_sim_objects) <= room
           /\ cells' = s.cells
           /\ new_sim_objects' = s.new_sim_objects
           /\ last' = [idx |-> i, pre |-> cells[i], mid |-> r.mid, post |-> r.cell,
                       volume_requests |-> r.volume_requests,
                       daughters |-> r.daughters,
                       set_position |-> r.set_position,
                       size_before |-> Len(Population)]
    /\ ran' = Append(ran, i)
    /\ visited' = visited \cup {i}
    /\ UNCHANGED <<step, pc, snapshot>>

\* the pass is over: commit and count the tick
EndTick(limit) ==
    /\ pc = "simulate"
    /\ step < Horizon(simulation_steps, limit)
    /\ ToVisit = {}
    /\ cells' = Commit(cells, new_sim_objects)
    /\ new_sim_objects' = <<>>
    /\ step' = step + 1
    /\ ran' = <<>>
    /\ snapshot' = Len(cells')
    /\ UNCHANGED <<pc, visited, last>>

\* lines 179-180: Simulate(simulation_steps) returned
Finish ==
    /\ pc = "simulate"
    /\ step = simulation_steps
    /\ pc' = "done"
    /\ UNCHANGED <<cells, new_sim_objects, step, ran, snapshot, visited, last>>

\* ------------------------------------------------------------------------
\* Simulate: the set-up loop (lines 148-173)
\* ------------------------------------------------------------------------
\* values random->Uniform(lo, hi) is modelled to return: the low end (below
\* the low margin), the middle, and the last point of the half-open range
\* (above the high margin)
UniformSample(lo, hi) == {lo, (lo + hi) \div 2, hi - 1}

\* lines 161-171: one cell of the 2d layer
PlateCell(x_coord, y_coord) ==
    SetDiameter(MyCellExt(<<x_coord, y_coord, z_pos_init>>), 6)

PlateCells ==
    { PlateCell(x, y) : x \in UniformSample(x_min, x_max),
                        y \in UniformSample(y_min, y_max) }

NoRun ==
    [idx |-> 0, pre |-> NoCell, mid |-> NoCell, post |-> NoCell,
     volume_requests |-> <<>>, daughters |-> <<>>, set_position |-> <<>>,
     size_before |-> 0]

Started(store) ==
    /\ cells = store
    /\ new_sim_objects = <<>>
    /\ step = 0
    /\ ran = <<>>
    /\ pc = "simulate"
    /\ snapshot = Len(store)
    /\ visited = {}
    /\ last = NoRun

\* the state in which line 177 is reached
Init == \E store \in [1 .. num_cells -> PlateCells] : Started(store)

Next ==
    \/ \E i \in 1 .. MaxCells, g \in GrowthOutcomes, axis \in DivisionAxes :
          RunCell(i, g, axis, MaxTicks, MaxCells)
    \/ EndTick(MaxTicks)

\* the program as shipped, explored for MaxTicks ticks
Spec == Init /\ [][Next]_vars

\* a test population: any MyCell the setters and the constructor can make
TestXs ==
    { x_min - 5 * Units, x_min, x_min + 1, x_min + eps, x_min + eps + 1, 0,
      x_max - eps - 1, x_max - eps, x_max - 1, x_max, x_max + eps,
      x_max + 5 * Units }

TestYs ==
    { y_min - 5 * Units, y_min, y_min + 1, y_min + eps, y_min + eps + 1, 0,
      y_max - eps - 1, y_max - eps, y_max - 1, y_max, y_max + eps,
      y_max + 5 * Units }

TestZs == { z_pos_init, simulation_cube_dim }

TestColors == { 0, 1, 0 - 5 }

TestCell(x, y, z, d, div, col) ==
    SetCellColor(SetCanDivide(SetDiameter(MyCellExt(<<x, y, z>>), d), div), col)

\* every x with a few y, and every y with a few x
TestPlaces ==
    { <<x, y>> : x \in TestXs, y \in {y_min - 5 * Units, 0, y_max - 1} }
      \cup { <<x, y>> : x \in {x_min - 5 * Units, 0, x_max - 1}, y \in TestYs }

\* every diameter, flag, colour and z at a few places
TestCellsByState ==
    { TestCell(p[1], p[2], z, d, div, col) :
        p \in { <<0, 0>>, <<x_max + 5 * Units, y_min - 5 * Units>>,
                <<x_min, y_max - 1>> },
        z \in TestZs, d \in 6 .. MaxDiameter, div \in BOOLEAN,
        col \in TestColors }

\* every place for a growing, a dividing and a non-dividing cell
TestCellsByPlace ==
    { TestCell(p[1], p[2], z, a[1], a[2], a[3]) :
        p \in TestPlaces, z \in TestZs,
        a \in { <<7, TRUE, 0>>, <<8, TRUE, 1>>, <<8, FALSE, 0 - 5>>,
                <<MaxDiameter, TRUE, 0 - 5>> } }

TestCells == TestCellsByState \cup TestCellsByPlace

\* cells of the two-cell test populations
PairCells ==
    { TestCell(0, 0, z_pos_init, 7, TRUE, 1),
      TestCell(x_max, y_min, z_pos_init, 8, TRUE, 0 - 5),
      TestCell(x_min, 0, simulation_cube_dim, 8, FALSE, 1),
      TestCell(x_max - eps, y_max + eps, z_pos_init, 9, TRUE, 0) }

InitTest ==
    \/ \E c \in TestCells : Started(<<c>>)
    \/ \E c \in PairCells, d \in PairCells : Started(<<c, d>>)

\* GrowthModule::Run driven by the scheduler over test populations
NextTest ==
    \/ \E i \in 1 .. MaxTestCells, g \in GrowthOutcomes, axis \in DivisionAxes :
          RunCell(i, g, axis, MaxTestTicks, MaxTestCells)
    \/ EndTick(MaxTestTicks)

SpecTest == InitTest /\ [][NextTest]_vars

\* the cells of the 2d layer all placed in the middle of the plate
InitCentre ==
    Started([i \in 1 .. num_cells |-> PlateCell((x_min + x_max) \div 2,
                                                (y_min + y_max) \div 2)])

NextFull ==
    \/ \E i \in 1 .. MaxCells, g \in GrowthOutcomes :
          RunCell(i, g, <<Units \div 2, 0, 0>>, simulation_steps, MaxCells)
    \/ EndTick(simulation_steps)
    \/ Finish

\* the program as shipped, run to completion: all simulation_steps ticks,
\* with the placement and the division axis fixed
SpecFull == InitCentre /\ [][NextFull]_vars

\* ------------------------------------------------------------------------
\* Properties
\* ------------------------------------------------------------------------
\* an invocation of Run has happened; last describes the latest one
Invoked == last.idx # 0

\* the cell the latest invocation ran on, as it is in the container now
Subject == cells[last.idx]

\* the newest simulation object
Newest == Population[Len(Population)]

\* C1: an invocation on a cell of diameter < 8 makes exactly one
\* ChangeVolume request, of 300, and creates no daughter, whatever the
\* cell's can_divide and cell_color.
C1_GrowthBranch ==
    (Invoked /\ last.pre.diameter < 8) =>
        /\ last.volume_requests = <<300>>
        /\ last.daughters = <<>>
        /\ Len(Population) = last.size_before

C1_Witness ==
    /\ Invoked
    /\ last.pre.diameter = 7
    /\ last.pre.can_divide
    /\ last.pre.cell_color = 0 - 5
    /\ last.volume_requests = <<300>>

\* C2: an invocation on a cell of diameter >= 8 with can_divide set adds
\* exactly one daughter to the population; afterwards the daughter's
\* can_divide is true and its cell_color is the mother's; no ChangeVolume
\* request is made.
C2_DivisionThreshold ==
    (Invoked /\ last.pre.diameter >= 8 /\ last.pre.can_divide) =>
        /\ Len(Population) = last.size_before + 1
        /\ Len(last.daughters) = 1
        /\ Newest = last.daughters[1]
        /\ Newest.can_divide = TRUE
        /\ Newest.cell_color = last.pre.cell_color
        /\ last.volume_requests = <<>>

C2_Witness ==
    /\ Invoked
    /\ last.pre.diameter >= 8
    /\ last.pre.can_divide
    /\ last.pre.cell_color = 0 - 5
    /\ Len(Population) = last.size_before + 1
    /\ Newest.cell_color = 0 - 5

\* C3: an invocation on a cell of diameter >= 8 with can_divide unset adds
\* no daughter, makes no ChangeVolume request and leaves the cell's
\* can_divide and cell_color as they were.
C3_DivisionSuppression ==
    (Invoked /\ last.pre.diameter >= 8 /\ ~last.pre.can_divide) =>
        /\ Len(Population) = last.size_before
        /\ last.daughters = <<>>
        /\ last.volume_requests = <<>>
        /\ Subject.can_divide = last.pre.can_divide
        /\ Subject.cell_color = last.pre.cell_color

C3_Witness ==
    /\ Invoked
    /\ last.pre.diameter = 9
    /\ ~last.pre.can_divide
    /\ last.pre.cell_color = 1
    /\ Len(Population) = last.size_before

\* the x and y tests of Run pass a position without resetting it
StrictlyInside(p) ==
    /\ p[1] > x_min + eps /\ p[1] < x_max - eps
    /\ p[2] > y_min + eps /\ p[2] < y_max - eps

\* C4 as stated: a cell whose x (y) is above x_max - 0.01 (y_max - 0.01)
\* when Run is invoked has x = x_max - 0.01 (y = y_max - 0.01) after the
\* invocation, in every branch.
C4_AsStated ==
    Invoked =>
        /\ last.pre.position[1] > x_max - eps => Subject.position[1] = x_max - eps
        /\ last.pre.position[2] > y_max - eps => Subject.position[2] = y_max - eps

\* C4, amended: a cell whose x (y), as line 104 reads it after the growth or
\* division step of the same invocation, is above x_max - 0.01
\* (y_max - 0.01) has x = x_max - 0.01 (y = y_max - 0.01) after the
\* invocation, in every branch; line 104 reads the position the cell had at
\* the invocation unless the cell divided in it.
C4_UpperClamp ==
    Invoked =>
        /\ last.mid.position[1] > x_max - eps => Subject.position[1] = x_max - eps
        /\ last.mid.position[2] > y_max - eps => Subject.position[2] = y_max - eps
        /\ last.daughters = <<>> => last.mid.position = last.pre.position

C4_Witness ==
    /\ Invoked
    /\ last.daughters # <<>>
    /\ last.pre.position[1] = x_max + 5 * Units
    /\ last.mid.position[1] > x_max - eps
    /\ Subject.position[1] = x_max - eps

\* C5 as stated: a cell whose x is below x_min + 0.01 when Run is invoked
\* has x = x_max + 0.01 after the invocation.
C5_AsStated ==
    (Invoked /\ last.pre.position[1] < x_min + eps) =>
        Subject.position[1] = x_max + eps

\* C5, amended: a cell whose x, as line 104 reads it after the growth or
\* division step of the same invocation, is below x_min + 0.01 has
\* x = x_max + 0.01 after the invocation; line 104 reads the x the cell had
\* at the invocation unless the cell divided in it.
C5_LowerX ==
    Invoked =>
        /\ last.mid.position[1] < x_min + eps => Subject.position[1] = x_max + eps
        /\ last.daughters = <<>> => last.mid.position[1] = last.pre.position[1]

C5_Witness ==
    /\ Invoked
    /\ last.pre.position[1] = x_min - 5 * Units
    /\ last.mid.position[1] < x_min + eps
    /\ Subject.position[1] = x_max + eps

\* C6 as stated: a cell whose x and y are strictly inside the margins when
\* Run is invoked keeps its position (x, y, z) and no SetPosition is made;
\* no invocation changes the z of its cell.
C6_AsStated ==
    Invoked =>
        /\ StrictlyInside(last.pre.position) =>
              /\ Subject.position = last.pre.position
              /\ last.set_position = <<>>
        /\ Subject.position[3] = last.pre.position[3]

\* C6, amended: a cell whose x and y, as line 104 reads them after the growth
\* or division step of the same invocation, are strictly inside the margins
\* keeps the position read and no SetPosition is made; lines 104-124 never
\* change z, corrected x or y or not; the position read is the one the cell
\* had at the invocation unless the cell divided in it.
C6_NoOp ==
    Invoked =>
        /\ StrictlyInside(last.mid.position) =>
              /\ Subject.position = last.mid.position
              /\ last.set_position = <<>>
        /\ Subject.position[3] = last.mid.position[3]
        /\ last.daughters = <<>> => last.mid.position = last.pre.position

C6_Witness ==
    /\ Invoked
    /\ StrictlyInside(last.pre.position)
    /\ last.pre.position[3] = simulation_cube_dim
    /\ last.daughters = <<>>
    /\ last.set_position = <<>>
    /\ Subject.position = last.pre.position

\* C7: a simulation object created by a division in a tick is not visited
\* by Run in that tick: the cells visited in a tick are among those that
\* were in the container when the tick began, no object created since has
\* ever been visited, and when the pass is over exactly the cells of the
\* beginning of the tick have been visited (so a daughter's first
\* invocation is in the tick after its creation).
C7_TickIsolation ==
    /\ Range(ran) \subseteq 1 .. snapshot
    /\ \A k \in (snapshot + 1) .. Len(Population) : k \notin visited
    /\ visited \subseteq 1 .. snapshot
    /\ ToVisit = {} => Range(ran) = 1 .. snapshot

\* a daughter is visited, in a tick after the one that created it
C7_Witness ==
    /\ Invoked
    /\ last.idx > num_cells
    /\ last.idx \in Range(ran)
    /\ last.idx <= snapshot

\* x and y both within [x_min + 0.01, x_max + 0.01]
InRange(p) ==
    /\ p[1] >= x_min + eps /\ p[1] <= x_max + eps
    /\ p[2] >= x_min + eps /\ p[2] <= x_max + eps

\* C8 as stated: at every tick the x and y of every simulation object lie
\* within [x_min + 0.01, x_max + 0.01].
C8_AsStated ==
    \A k \in 1 .. Len(Population) : InRange(Population[k].position)

\* C8, amended: at every tick the x and y of every simulation object that
\* Run has been invoked on at least once lie within
\* [x_min + 0.01, x_max + 0.01]; a cell of the set-up loop before its first
\* invocation and a daughter in the tick of its creation can lie outside.
C8_PositionBound ==
    \A k \in visited : k <= Len(cells) /\ InRange(cells[k].position)

C8_Witness ==
    /\ \E k \in visited : cells[k].position[1] = x_max + eps
    /\ \E k \in visited : cells[k].position[2] = y_max - eps

\* no index occurs twice
NoRepeat(seq) == \A a, b \in DOMAIN seq : seq[a] = seq[b] => a = b

\* C9: the run takes exactly 600 ticks and is then complete; in a tick
\* every cell in the container at its beginning is visited exactly once;
\* the next tick begins only when every cell of this one has been visited
\* and the objects its divisions created have joined the container.
C9_TickScheduling ==
    /\ [](/\ step <= 600
          /\ pc = "done" => step = 600
          /\ NoRepeat(ran)
          /\ Range(ran) \subseteq 1 .. snapshot
          /\ ran = <<>> => (new_sim_objects = <<>> /\ snapshot = Len(cells)))
    /\ [][step' # step =>
            /\ step' = step + 1
            /\ pc = "simulate"
            /\ Range(ran) = 1 .. snapshot
            /\ Len(ran) = snapshot
            /\ cells' = cells \o new_sim_objects
            /\ new_sim_objects' = <<>>]_vars
    /\ [][pc' # pc => (pc' = "done" /\ step = 600 /\ ran = <<>>)]_vars

C9_Witness ==
    /\ pc = "done"
    /\ step = 600
    /\ Len(cells) > num_cells

\* the multiset of the elements of a sequence
BagOf(seq) ==
    [x \in Range(seq) |-> Cardinality({k \in DOMAIN seq : seq[k] = x})]

\* Run on i then on j and Run on j then on i leave the same container and
\* the same multiset of new objects
Commute(i, gi, ai, j, gj, aj) ==
    LET a  == Invoke(cells, new_sim_objects, i, gi, ai)
        ab == Invoke(a.cells, a.new_sim_objects, j, gj, aj)
        b  == Invoke(cells, new_sim_objects, j, gj, aj)
        ba == Invoke(b.cells, b.new_sim_objects, i, gi, ai)
    IN  /\ ab.cells = ba.cells
        /\ BagOf(ab.new_sim_objects) = BagOf(ba.new_sim_objects)

\* C10: an invocation of Run on a cell changes no other simulation object
\* that exists (it changes its cell and adds the daughter); so the
\* invocations still due in a tick, taken in either order, leave the same
\* cells and the same multiset of daughters.
C10_Isolation ==
    /\ [][Len(ran') = Len(ran) + 1 =>
            /\ Len(Population') >= Len(Population)
            /\ \A k \in 1 .. Len(Population) :
                  k # ran'[Len(ran')] => Population'[k] = Population[k]]_vars
    /\ [](\A i, j \in ToVisit : i < j =>
            \A gi, gj \in GrowthOutcomes, ai, aj \in DivisionAxes :
                Commute(i, gi, ai, j, gj, aj))

C10_Witness ==
    /\ Len(ran) = 2
    /\ last.daughters # <<>>
    /\ cells[ran[1]] # cells[ran[2]]
    /\ last.post # last.pre

\* what the two-branch test of Run makes of a coordinate v tested against
\* the margins lo + 0.01 and hi - 0.01
Tested(v, lo, hi) ==
    IF v > hi - eps THEN hi - eps
    ELSE IF v < lo + eps THEN x_max + eps
    ELSE v

\* C11 as stated: a cell whose y is below y_min + 0.01 when Run is invoked
\* has y = x_max + 0.01 after the invocation.
C11_AsStated ==
    (Invoked /\ last.pre.position[2] < y_min + eps) =>
        Subject.position[2] = x_max + eps

\* C11, amended: the y test is applied whatever the x test did; a cell whose
\* y, as line 104 reads it after the growth or division step of the same
\* invocation, is below y_min + 0.01 has y = x_max + 0.01 after the
\* invocation, and its x is what the x test alone makes of the x read;
\* line 104 reads the position the cell had at the invocation unless the
\* cell divided in it.
C11_LowerY ==
    Invoked =>
        /\ last.mid.position[2] < y_min + eps => Subject.position[2] = x_max + eps
        /\ Subject.position[2] = Tested(last.mid.position[2], y_min, y_max)
        /\ Subject.position[1] = Tested(last.mid.position[1], x_min, x_max)
        /\ last.daughters = <<>> => last.mid.position = last.pre.position

\* both tests reset their coordinate in one invocation
C11_Witness ==
    /\ Invoked
    /\ last.mid.position[1] > x_max - eps
    /\ last.mid.position[2] < y_min + eps
    /\ Subject.position[1] = x_max - eps
    /\ Subject.position[2] = x_max + eps

\* C12: in one invocation the growth or division step comes first and the
\* bounding step second: in every branch the cell ends where the two tests
\* put the position the first step left (z untouched), a volume request is
\* made exactly when the diameter at the invocation was below 8, and a
\* daughter created in the invocation keeps the position Divide gave it,
\* on the other side of the mother's position at the invocation, without
\* being bounded.
C12_StepOrder ==
    Invoked =>
        /\ Subject.position =
              << Tested(last.mid.position[1], x_min, x_max),
                 Tested(last.mid.position[2], y_min, y_max),
                 last.mid.position[3] >>
        /\ (last.volume_requests # <<>>) = (last.pre.diameter < 8)
        /\ last.daughters # <<>> =>
              \E axis \in DivisionAxes :
                 /\ Newest.position = Shift(last.pre.position, axis)
                 /\ last.mid.position = Shift(last.pre.position, Opposite(axis))

\* a division whose mother is reset while the daughter stays out of range
C12_Witness ==
    /\ Invoked
    /\ last.daughters # <<>>
    /\ last.set_position # <<>>
    /\ Subject.position # last.mid.position
    /\ Newest.position[1] > x_max + eps

\* C13 as stated: a cell that cannot divide gets a volume request at every
\* invocation, whatever its diameter
C13_AsStated ==
    (Invoked /\ ~last.pre.can_divide) =>
        /\ last.daughters = <<>>
        /\ last.volume_requests # <<>>

\* C13: a cell that cannot divide never produces a daughter and stays
\* unable to divide; a volume increase is requested for it exactly while
\* its diameter is below 8, and from diameter 8 on an invocation makes no
\* request and leaves its diameter as it was.
C13_BarrenGrowth ==
    (Invoked /\ ~last.pre.can_divide) =>
        /\ last.daughters = <<>>
        /\ Len(Population) = last.size_before
        /\ ~Subject.can_divide
        /\ (last.volume_requests # <<>>) = (last.pre.diameter < division_diameter)
        /\ last.pre.diameter >= division_diameter =>
              Subject.diameter = last.pre.diameter

\* in the second tick, a cell that cannot divide and has reached the
\* threshold is invoked and is not grown
C13_Witness ==
    /\ Invoked
    /\ step >= 1
    /\ ~last.pre.can_divide
    /\ last.pre.diameter >= division_diameter
    /\ last.volume_requests = <<>>
    /\ last.daughters = <<>>
    /\ Subject.diameter = last.pre.diameter

\* ways of giving other colours to the cells of a population: between
\* them, each colour is turned into each of the other two
Paints ==
    { [k \in TestColors |-> IF k = 0 THEN 1 ELSE IF k = 1 THEN -5 ELSE 0],
      [k \in TestColors |-> IF k = 0 THEN -5 ELSE IF k = 1 THEN 0 ELSE 1] }

Painted(seq, paint) ==
    [k \in DOMAIN seq |-> SetCellColor(seq[k], paint[GetCellColor(seq[k])])]

\* the container and the pending objects after an invocation on cell i
\* whose result is r
Stored(store, pending, i, r) ==
    PushNew(WriteBack(store, i, r.cell), pending, r.daughters)

\* C14: cell_color_ takes no part in the behaviour. Take the population
\* and any population that differs from it only in the colours of the
\* cells: every invocation that is due makes the same volume requests and
\* the same position writes in both, and leaves two populations that again
\* differ only in colour (same size, diameters, positions and can_divide,
\* each daughter carrying the colour of its mother); so does the end of
\* the tick.
C14_Opaque ==
    \A paint \in Paints :
        LET store == Painted(cells, paint)
            pending == Painted(new_sim_objects, paint)
        IN  /\ \A i \in ToVisit, g \in GrowthOutcomes, axis \in DivisionAxes :
                  LET ra == Run(cells[i], g, axis)
                      rb == Run(store[i], g, axis)
                      a == Stored(cells, new_sim_objects, i, ra)
                      b == Stored(store, pending, i, rb)
                  IN  /\ a = Invoke(cells, new_sim_objects, i, g, axis)
                      /\ b.cells = Painted(a.cells, paint)
                      /\ b.new_sim_objects = Painted(a.new_sim_objects, paint)
                      /\ rb.volume_requests = ra.volume_requests
                      /\ rb.set_position = ra.set_position
            /\ Commit(store, pending) =
                  Painted(Commit(cells, new_sim_objects), paint)

\* a coloured cell has divided and been reset, its daughter has its
\* colour, and a cell of another colour is due to divide
C14_Witness ==
    /\ Invoked
    /\ last.pre.cell_color # 0
    /\ last.daughters # <<>>
    /\ last.set_position # <<>>
    /\ Newest.cell_color = last.pre.cell_color
    /\ \E i \in ToVisit :
          /\ cells[i].cell_color # last.pre.cell_color
          /\ IsDividing(cells[i])

\* the cell is one that line 91 and line 94 send to Divide
Eligible(c) == c.diameter >= division_diameter /\ c.can_divide

\* C15: no cell is ever removed and the population never shrinks; an
\* invocation on a cell with diameter >= 8 and can_divide adds exactly one
\* object and keeps the mother in her place, any other invocation adds
\* none; the container keeps its size during a tick, and the end of the
\* tick adds to it exactly the objects those invocations created.
C15_Lifecycle ==
    /\ [][/\ Len(Population') >= Len(Population)
          /\ Len(cells') >= Len(cells)
          /\ Len(ran') = Len(ran) + 1 =>
                LET c == cells[ran'[Len(ran')]]
                IN  /\ Len(cells') = Len(cells)
                    /\ Len(new_sim_objects') =
                          Len(new_sim_objects) + (IF Eligible(c) THEN 1 ELSE 0)
                    /\ SubSeq(new_sim_objects', 1, Len(new_sim_objects)) =
                          new_sim_objects
          /\ step' = step + 1 =>
                /\ cells' = cells \o new_sim_objects
                /\ Len(cells') = snapshot + Len(new_sim_objects)]_vars
    /\ [](/\ Len(cells) = snapshot
          /\ Len(new_sim_objects) <= Len(ran))

\* a tick has just ended in which the last cell visited divided, next to
\* a cell at the threshold that cannot divide: the container is one larger
C15_Witness ==
    /\ step = 1
    /\ ran = <<>>
    /\ Invoked
    /\ Eligible(last.pre)
    /\ Len(cells) = last.size_before + 1
    /\ \E k \in DOMAIN cells :
          ~cells[k].can_divide /\ cells[k].diameter >= division_diameter

\* C16 as stated: after an invocation the x and y of its cell lie in
\* [x_min + 0.01, x_max + 0.01], and a coordinate is x_max + 0.01 only if it
\* was below the lower margin when Run was invoked
C16_AsStated ==
    Invoked =>
        /\ InRange(Subject.position)
        /\ Subject.position[1] = x_max + eps => last.pre.position[1] < x_min + eps
        /\ Subject.position[2] = x_max + eps => last.pre.position[2] < y_min + eps

\* C16, amended: after an invocation, whatever the position of its cell
\* before, the x and y of the cell lie in [x_min + 0.01, x_max + 0.01], and
\* a coordinate is x_max + 0.01 only if, as line 104 read it after the growth
\* or division step of the same invocation, it was below the lower margin;
\* that is the coordinate of the invocation unless the cell divided in it.
C16_AfterRun ==
    Invoked =>
        /\ InRange(Subject.position)
        /\ Subject.position[1] = x_max + eps => last.mid.position[1] < x_min + eps
        /\ Subject.position[2] = x_max + eps => last.mid.position[2] < y_min + eps
        /\ last.daughters = <<>> =>
              /\ last.mid.position[1] = last.pre.position[1]
              /\ last.mid.position[2] = last.pre.position[2]

\* a cell invoked with y at x_max + 0.01 and x far below the range ends
\* with y at the upper margin and x at x_max + 0.01
C16_Witness ==
    /\ Invoked
    /\ last.pre.position[2] = x_max + eps
    /\ last.mid.position[1] < x_min + eps
    /\ Subject.position[1] = x_max + eps
    /\ Subject.position[2] = y_max - eps

\* x and y both within [x_min + 0.01, x_max - 0.01]
Settled(p) ==
    /\ p[1] >= x_min + eps /\ p[1] <= x_max - eps
    /\ p[2] >= y_min + eps /\ p[2] <= y_max - eps

\* the cells as they enter the model: those of the starting population,
\* and after an invocation its cell and the daughter it made
FreshCells ==
    IF Invoked THEN {Subject} \cup Range(last.daughters) ELSE Range(Population)

AsConstructed(c) == c.can_divide /\ c.cell_color = 0

\* C18: in Simulate as shipped every simulation object, one of the set-up
\* loop or one made by a division, has can_divide_ true and cell_color_ 0
\* at every tick; an invocation on any of them, a daughter included, leaves
\* its cell and any daughter it makes with these values, and an invocation
\* at diameter >= 8 always divides: the branch that suppresses a division
\* is never taken.
C18_Shipped ==
    /\ \A k \in 1 .. Len(Population) : AsConstructed(Population[k])
    /\ Invoked =>
          /\ AsConstructed(last.pre)
          /\ last.pre.diameter >= division_diameter => last.daughters # <<>>
    /\ \A k \in 1 .. Len(Population) :
          \A g \in GrowthOutcomes, axis \in DivisionAxes :
              LET r == Run(Population[k], g, axis)
              IN  /\ AsConstructed(r.cell)
                  /\ \A n \in DOMAIN r.daughters : AsConstructed(r.daughters[n])
                  /\ (r.volume_requests = <<>>) = (r.daughters # <<>>)

\* a daughter has grown to the threshold next to its mother, both as
\* constructed, and its next invocation divides
C18_Witness ==
    /\ Invoked
    /\ last.idx > num_cells
    /\ last.volume_requests # <<>>
    /\ Subject.diameter = division_diameter
    /\ AsConstructed(Subject)
    /\ AsConstructed(cells[1])
    /\ \A g \in GrowthOutcomes, axis \in DivisionAxes :
          Run(Subject, g, axis).daughters # <<>>

====
